---- MODULE Spec2Model ----
(***************************************************************************)
(* modcore clipboard: the PIN-protected vault of the popup (State, the     *)
(* handlers handleSetup / handleLogin / handleChangePin / saveSnippet /    *)
(* deleteSnippet / handleImport / handleReset, processPendingClips,        *)
(* saveEncrypted) and                                                      *)
(* the background capture addToPending, over chrome.storage.local.         *)
(*                                                                         *)
(* Every async function is cut at its await points: one action per piece   *)
(* of code that runs without suspension.  A storage call takes effect (or  *)
(* is rejected) in the action that resumes its caller.  A rejected         *)
(* storage call changes nothing in the store.                              *)
(***************************************************************************)
EXTENDS Integers, Sequences, FiniteSets, TLC

\* ---------------------------------------------------------------- bounds
MaxAdders == 2          \* addToPending calls in flight at once
MaxSavers == 2          \* saveSnippet/deleteSnippet/import calls in flight at once
MaxEvents == 5          \* under Spec: handlers started, captures entered and
                        \* storage calls rejected, in one run
PendingCaptures == 4    \* the same under SpecPending
MaxFaults == 1          \* storage calls rejected in one run
UnlockEvents == 2       \* the same as MaxEvents, under SpecUnlock

\* ------------------------------------------------------ program constants
MaxPending == 20        \* if (list.length > 20) list.pop()
PinLen == 6             \* /^\d{6}$/

\* ----------------------------------------------------------------- inputs
\* A PIN is the sequence of its characters; 0..9 are the digits.
Pins == { <<1, 2, 3, 4, 5, 6>>, <<6, 5, 4, 3, 2, 1>> }
PinInputs == Pins \cup { <<1, 2, 3>> }
Contents == { "foo", "bar" }

\* The items of a backup file: a file exported earlier carries ids, and an
\* item may come without content or without type ("" stands for a missing
\* field).
fooItem == [id |-> 1, type |-> "text", content |-> "foo", tags |-> <<>>]
barItem == [id |-> 1, type |-> "text", content |-> "bar", tags |-> <<>>]
blankItem == [id |-> 2, type |-> "text", content |-> "", tags |-> <<>>]
untypedItem == [id |-> 2, type |-> "", content |-> "bar", tags |-> <<>>]
ImportFiles == { <<fooItem, fooItem>>, <<barItem, fooItem>>,
                 <<blankItem, barItem>>, <<untypedItem, fooItem>> }

VARIABLES
    storage,      \* chrome.storage.local: salt, encryptedData, pendingClips
    State,        \* State.key, State.snippets of the popup
    loading,      \* setLoading: every button of the popup is disabled
    login,        \* handleLogin in flight (with processPendingClips)
    setup,        \* handleSetup in flight
    changePin,    \* handleChangePin in flight
    savers,       \* saveSnippet / deleteSnippet calls awaiting saveEncrypted
    reset,        \* handleReset in flight
    adders,       \* addToPending calls in flight (background)
    report,       \* the handler that reported last, and what it reported
    saved,        \* the toasts of the mutate that ended last
    nextSalt,     \* generateSalt: salts handed out so far
    nextId,       \* crypto.randomUUID: ids handed out so far
    now,          \* Date.now()
    budget        \* what the environment may still do (events, faults)

vars == << storage, State, loading, login, setup, changePin, savers, reset,
           adders, report, saved, nextSalt, nextId, now, budget >>

popupVars == << State, loading, login, setup, changePin, savers, reset,
                report, saved, nextSalt, nextId >>

\* ------------------------------------------------------------ CryptoCore
NoKey == [pin |-> <<>>, salt |-> 0]
NoSalt == 0

deriveKey(pin, salt) == [pin |-> pin, salt |-> salt]

NoEnvelope == [key |-> NoKey, data |-> <<>>]

encrypt(data, key) == [key |-> key, data |-> data]

\* An envelope whose bytes were altered after encryption: AES-GCM
\* authenticates it under no key.
NoMatchingKey == [pin |-> <<>>, salt |-> -1]
tampered(encryptedObj) == [encryptedObj EXCEPT !.key = NoMatchingKey]

\* What decrypt throws: reading encryptedObj.iv of a missing envelope is a
\* TypeError raised at line 87, before the try; a rejection by AES-GCM is
\* caught at line 96 and rethrown as the Error of line 97.
DecryptionFailed == "Decryption failed. Invalid PIN or corrupted data."
decryptError(encryptedObj, key) ==
    IF encryptedObj = NoEnvelope THEN "TypeError"
    ELSE IF encryptedObj.key # key THEN DecryptionFailed
    ELSE "none"

decryptThrows(encryptedObj, key) == decryptError(encryptedObj, key) # "none"

decrypt(encryptedObj, key) == encryptedObj.data

validatePin(pin) ==
    /\ Len(pin) = PinLen
    /\ \A i \in 1..Len(pin) : pin[i] \in 0..9

\* ------------------------------------------------------------- helpers
contentsOf(list) == { list[i].content : i \in 1..Len(list) }

unshift(list, x) == <<x>> \o list

pop(list) == SubSeq(list, 1, Len(list) - 1)

\* A storage call may be rejected while the budget lasts.
canFail == budget.faults > 0 /\ budget.events > 0
spendFault == [budget EXCEPT !.faults = @ - 1, !.events = @ - 1]

\* A handler of the popup or a capture may start while the budget lasts.
canStart == budget.events > 0
spendOp == [budget EXCEPT !.events = @ - 1]

\* ---------------------------------------------------- addToPending (21-38)
IdleAdder == [pc |-> "idle", content |-> "", list |-> <<>>]

\* the listeners of lines 9-19 call addToPending(content), which suspends
\* on storage.get; the call is kept in the first free slot of adders
addToPending_call(a, content) ==
    /\ adders[a].pc = "idle"
    /\ \A b \in 1..(a - 1) : adders[b].pc # "idle"
    /\ canStart
    /\ budget' = spendOp
    /\ adders' = [adders EXCEPT ![a] = [pc |-> "get", content |-> content, list |-> <<>>]]
    /\ UNCHANGED << storage, popupVars, now >>

\* (mutant) list.shift() where the code has list.pop()
pendingInsert_shift(list, content, timestamp) ==
    LET grown == unshift(list, [content |-> content, timestamp |-> timestamp])
    IN  IF Len(grown) > MaxPending THEN Tail(grown) ELSE grown

\* the list addToPending is about to write, from the list it read
pendingInsert(list, content, timestamp) ==
    LET grown == unshift(list, [content |-> content, timestamp |-> timestamp])
    IN  IF Len(grown) > MaxPending THEN pop(grown) ELSE grown

\* (mutant) list[0] === content: an entry is never the string
isHeadDuplicate_never(list, content) == FALSE

\* line 30
isHeadDuplicate(list, content) ==
    Len(list) > 0 /\ list[1].content = content

\* lines 26-37: the get resolves; duplicate check, unshift, pop; suspends on set
addToPending_get(a) ==
    /\ adders[a].pc = "get"
    /\ LET list == storage.pendingClips
           content == adders[a].content
       IN  IF isHeadDuplicate(list, content)
           THEN /\ adders' = [adders EXCEPT ![a] = IdleAdder]
                /\ now' = now
           ELSE /\ adders' = [adders EXCEPT ![a] =
                       [pc |-> "set", content |-> content,
                        list |-> pendingInsert(list, content, now + 1)]]
                /\ now' = now + 1
    /\ UNCHANGED << storage, popupVars, budget >>

\* line 37: the set takes effect
addToPending_set(a) ==
    /\ adders[a].pc = "set"
    /\ storage' = [storage EXCEPT !.pendingClips = adders[a].list]
    /\ adders' = [adders EXCEPT ![a] = IdleAdder]
    /\ UNCHANGED << popupVars, now, budget >>

\* line 26 or 37: the storage call is rejected; the call ends there
addToPending_rejected(a) ==
    /\ adders[a].pc \in {"get", "set"}
    /\ canFail
    /\ budget' = spendFault
    /\ adders' = [adders EXCEPT ![a] = IdleAdder]
    /\ UNCHANGED << storage, popupVars, now >>

addToPending ==
    \E a \in 1..MaxAdders :
        \/ \E content \in Contents : addToPending_call(a, content)
        \/ addToPending_get(a)
        \/ addToPending_set(a)
        \/ addToPending_rejected(a)

\* ------------------------------------------------------ idle task records
IdleLogin == [pc |-> "idle", pin |-> <<>>, key |-> NoKey, enc |-> NoEnvelope,
              wasLocked |-> FALSE]
IdleTask == [pc |-> "idle", key |-> NoKey, salt |-> NoSalt, enc |-> NoEnvelope]
IdleSaver == [pc |-> "idle", enc |-> NoEnvelope]

EmptyStorage == [salt |-> NoSalt, encryptedData |-> NoEnvelope, pendingClips |-> <<>>]

\* --------------------------------------------------- handleSetup (191-219)
\* lines 192-203: validation, setLoading(true), salt, key and the envelope of
\* the empty collection (none of them reads the state); suspends on set
handleSetup_submit(pin, confirm) ==
    /\ ~loading
    /\ reset # "reload"
    /\ canStart
    /\ budget' = spendOp
    /\ setup.pc = "idle"
    /\ IF ~validatePin(pin)
       THEN /\ report' = <<"setup", "invalid">>
            /\ UNCHANGED << setup, loading, nextSalt >>
       ELSE IF pin # confirm
       THEN /\ report' = <<"setup", "mismatch">>
            /\ UNCHANGED << setup, loading, nextSalt >>
       ELSE /\ nextSalt' = nextSalt + 1
            /\ loading' = TRUE
            /\ LET key == deriveKey(pin, nextSalt + 1)
               IN  setup' = [pc |-> "set", key |-> key, salt |-> nextSalt + 1,
                             enc |-> encrypt(<<>>, key)]
            /\ report' = <<"setup", "none">>
    /\ UNCHANGED << storage, State, login, changePin, savers, saved, reset, adders,
                    nextId, now >>

\* (mutant) the set of handleSetup without its salt
setupWrite_envelopeOnly(store, salt, enc) ==
    [store EXCEPT !.encryptedData = enc]

\* what the storage.set of lines 205-208 writes
setupWrite(store, salt, enc) ==
    [store EXCEPT !.salt = salt, !.encryptedData = enc]

\* lines 205-218: the set takes effect; the session adopts key and collection
handleSetup_set ==
    /\ setup.pc = "set"
    /\ storage' = setupWrite(storage, setup.salt, setup.enc)
    /\ State' = [key |-> setup.key, snippets |-> <<>>]
    /\ setup' = IdleTask
    /\ loading' = FALSE
    /\ report' = <<"setup", "ok">>
    /\ UNCHANGED << login, changePin, savers, saved, reset, adders, nextSalt, nextId,
                    now, budget >>

\* lines 214-218: the set is rejected
handleSetup_rejected ==
    /\ setup.pc = "set"
    /\ canFail
    /\ budget' = spendFault
    /\ setup' = IdleTask
    /\ loading' = FALSE
    /\ report' = <<"setup", "failed">>
    /\ UNCHANGED << storage, State, login, changePin, savers, saved, reset, adders,
                    nextSalt, nextId, now >>

handleSetup ==
    \/ \E pin \in PinInputs, confirm \in PinInputs : handleSetup_submit(pin, confirm)
    \/ handleSetup_set
    \/ handleSetup_rejected

\* --------------------------------------------- processPendingClips (491-515)
newAutoSnippet(id, content) ==
    [id |-> id, type |-> "text", content |-> content, tags |-> <<"auto">>]

\* (mutant) the clip is compared with the first snippet only
isKnownContent_first(snippets, content) ==
    Len(snippets) > 0 /\ snippets[1].content = content

\* line 498
isKnownContent(snippets, content) == content \in contentsOf(snippets)

\* lines 496-508: the forEach over the clips, in the order of the queue;
\* ids are handed out from id + 1 on
RECURSIVE forEachClip(_, _, _)
forEachClip(clips, snippets, id) ==
    IF clips = <<>>
    THEN [snippets |-> snippets, nextId |-> id]
    ELSE IF isKnownContent(snippets, Head(clips).content)
         THEN forEachClip(Tail(clips), snippets, id)
         ELSE forEachClip(Tail(clips),
                          unshift(snippets, newAutoSnippet(id + 1, Head(clips).content)),
                          id + 1)

\* ---------------------------------------------------- handleLogin (221-257)
\* lines 222-228: setLoading(true); suspends on storage.get
handleLogin_submit(pin) ==
    /\ ~loading
    /\ reset # "reload"
    /\ canStart
    /\ budget' = spendOp
    /\ login.pc = "idle"
    /\ pin # <<>>
    /\ loading' = TRUE
    /\ login' = [IdleLogin EXCEPT !.pc = "get", !.pin = pin,
                                  !.wasLocked = (State = [key |-> NoKey, snippets |-> <<>>])]
    /\ report' = <<"login", "none">>
    /\ UNCHANGED << storage, State, setup, changePin, savers, saved, reset, adders,
                    nextSalt, nextId, now >>

\* the finally of handleLogin, with what the user is shown
loginEnds(outcome) ==
    /\ login' = IdleLogin
    /\ loading' = FALSE
    /\ report' = <<"login", outcome>>

\* lines 228-232: the get resolves; no salt: showView('onboarding')
handleLogin_get ==
    /\ login.pc = "get"
    /\ IF storage.salt = NoSalt
       THEN loginEnds("onboarding")
       ELSE /\ login' = [login EXCEPT !.pc = "decrypt",
                                      !.key = deriveKey(login.pin, storage.salt),
                                      !.enc = storage.encryptedData]
            /\ UNCHANGED << loading, report >>
    /\ UNCHANGED << storage, State, setup, changePin, savers, saved, reset, adders,
                    nextSalt, nextId, now, budget >>

\* (mutant) State.key = key placed before the await of decrypt
adopted_early(state, key, enc) ==
    IF decryptThrows(enc, key)
    THEN [state EXCEPT !.key = key]
    ELSE [key |-> key, snippets |-> decrypt(enc, key)]

\* lines 235-239: State once decrypt has returned or thrown
adopted(state, key, enc) ==
    IF decryptThrows(enc, key)
    THEN state
    ELSE [key |-> key, snippets |-> decrypt(enc, key)]

\* lines 235-242: decrypt throws (catch: 'Incorrect PIN'), or the session adopts
\* key and collection and processPendingClips suspends on storage.get
handleLogin_decrypt ==
    /\ login.pc = "decrypt"
    /\ State' = adopted(State, login.key, login.enc)
    /\ IF decryptThrows(login.enc, login.key)
       THEN loginEnds("failed")
       ELSE /\ login' = [login EXCEPT !.pc = "pendingGet"]
            /\ UNCHANGED << loading, report >>
    /\ UNCHANGED << storage, setup, changePin, savers, saved, reset, adders,
                    nextSalt, nextId, now, budget >>

\* lines 492-511 and 335-338: the get resolves; forEach; with count > 0
\* saveEncrypted encrypts the collection under State.key and suspends;
\* otherwise processPendingClips returns and the login ends (244-246)
processPendingClips_get ==
    /\ login.pc = "pendingGet"
    /\ LET pendingClips == storage.pendingClips
           done == forEachClip(pendingClips, State.snippets, nextId)
           count == Len(done.snippets) - Len(State.snippets)
       IN  /\ State' = [State EXCEPT !.snippets = done.snippets]
           /\ nextId' = done.nextId
           /\ IF count > 0 /\ State.key # NoKey
              THEN /\ login' = [login EXCEPT !.pc = "pendingSave",
                                 !.enc = encrypt(done.snippets, State.key)]
                   /\ UNCHANGED << loading, report >>
              ELSE IF count > 0
              THEN /\ login' = [login EXCEPT !.pc = "pendingRemove"]
                   /\ UNCHANGED << loading, report >>
              ELSE loginEnds("ok")
    /\ UNCHANGED << storage, setup, changePin, savers, saved, reset, adders,
                    nextSalt, now, budget >>

\* lines 339-342 and 512: the set of saveEncrypted takes effect, or is rejected
\* and caught there ('Save failed'); either way remove is called next
processPendingClips_save ==
    /\ login.pc = "pendingSave"
    /\ \/ /\ storage' = [storage EXCEPT !.encryptedData = login.enc]
          /\ budget' = budget
       \/ /\ canFail
          /\ budget' = spendFault
          /\ storage' = storage
    /\ login' = [login EXCEPT !.pc = "pendingRemove"]
    /\ UNCHANGED << State, loading, setup, changePin, savers, saved, reset, adders,
                    report, nextSalt, nextId, now >>

\* lines 512-513 and 244-246: the remove takes effect; the login ends
processPendingClips_remove ==
    /\ login.pc = "pendingRemove"
    /\ storage' = [storage EXCEPT !.pendingClips = <<>>]
    /\ loginEnds("ok")
    /\ UNCHANGED << State, setup, changePin, savers, saved, reset, adders,
                    nextSalt, nextId, now, budget >>

\* lines 247-256: a get (228, 492) or the remove (512) is rejected; the catch
\* of handleLogin reports 'Incorrect PIN'
handleLogin_rejected ==
    /\ login.pc \in {"get", "pendingGet", "pendingRemove"}
    /\ canFail
    /\ budget' = spendFault
    /\ loginEnds("failed")
    /\ UNCHANGED << storage, State, setup, changePin, savers, saved, reset, adders,
                    nextSalt, nextId, now >>

handleLogin ==
    \/ \E pin \in PinInputs : handleLogin_submit(pin)
    \/ handleLogin_get
    \/ handleLogin_decrypt
    \/ processPendingClips_get
    \/ processPendingClips_save
    \/ processPendingClips_remove
    \/ handleLogin_rejected

\* ------------------------------------------------ handleChangePin (259-292)
\* lines 260-272: validation, setLoading(true), new salt; suspends on deriveKey
handleChangePin_submit(p1, p2) ==
    /\ ~loading
    /\ reset # "reload"
    /\ canStart
    /\ budget' = spendOp
    /\ changePin.pc = "idle"
    /\ IF ~validatePin(p1)
       THEN /\ report' = <<"changePin", "invalid">>
            /\ UNCHANGED << changePin, loading, nextSalt >>
       ELSE IF p1 # p2
       THEN /\ report' = <<"changePin", "mismatch">>
            /\ UNCHANGED << changePin, loading, nextSalt >>
       ELSE /\ nextSalt' = nextSalt + 1
            /\ loading' = TRUE
            /\ changePin' = [pc |-> "derive", key |-> deriveKey(p1, nextSalt + 1),
                             salt |-> nextSalt + 1, enc |-> NoEnvelope]
            /\ report' = <<"changePin", "none">>
    /\ UNCHANGED << storage, State, login, setup, savers, saved, reset, adders,
                    nextId, now >>

\* line 274: the key is derived; State.snippets is encrypted under it
handleChangePin_encrypt ==
    /\ changePin.pc = "derive"
    /\ changePin' = [changePin EXCEPT !.pc = "set",
                                      !.enc = encrypt(State.snippets, changePin.key)]
    /\ UNCHANGED << storage, State, loading, login, setup, savers, saved, reset, adders,
                    report, nextSalt, nextId, now, budget >>

\* what the one storage.set of lines 277-280 writes
rekeyWrite(store, salt, enc) ==
    [store EXCEPT !.salt = salt, !.encryptedData = enc]

\* the session key after the write has succeeded (line 282)
rekeySwap(oldKey, newKey) == newKey

\* lines 277-291: the set takes effect; State.key becomes the new key
handleChangePin_set ==
    /\ changePin.pc = "set"
    /\ storage' = rekeyWrite(storage, changePin.salt, changePin.enc)
    /\ State' = [State EXCEPT !.key = rekeySwap(State.key, changePin.key)]
    /\ changePin' = IdleTask
    /\ loading' = FALSE
    /\ report' = <<"changePin", "ok">>
    /\ UNCHANGED << login, setup, savers, saved, reset, adders, nextSalt, nextId,
                    now, budget >>

\* (mutant) State.key = newKey placed before the await of storage.set
rekeyKept_swapped(oldKey, newKey) == newKey

\* what a rejected storage.set leaves in the store, and in State.key (287-288)
rekeyRejected(store, salt, enc) == store
rekeyKept(oldKey, newKey) == oldKey

\* lines 287-291: the set is rejected: 'Error changing PIN'
handleChangePin_rejected ==
    /\ changePin.pc = "set"
    /\ canFail
    /\ budget' = spendFault
    /\ storage' = rekeyRejected(storage, changePin.salt, changePin.enc)
    /\ State' = [State EXCEPT !.key = rekeyKept(State.key, changePin.key)]
    /\ changePin' = IdleTask
    /\ loading' = FALSE
    /\ report' = <<"changePin", "failed">>
    /\ UNCHANGED << login, setup, savers, saved, reset, adders, nextSalt, nextId, now >>

handleChangePin ==
    \/ \E p1 \in PinInputs, p2 \in PinInputs : handleChangePin_submit(p1, p2)
    \/ handleChangePin_encrypt
    \/ handleChangePin_set
    \/ handleChangePin_rejected

\* ------------------------------- saveSnippet, deleteSnippet, saveEncrypted
newSnippet(id, content) ==
    [id |-> id, type |-> "text", content |-> content, tags |-> <<>>]

\* (mutant) the edited snippet is unshifted like a new one
savedSnippets_unshift(snippets, pendingEditId, snippet) ==
    unshift(snippets, snippet)

\* lines 313-318: replace the snippet under edit in place, or unshift a new one
savedSnippets(snippets, pendingEditId, snippet) ==
    IF pendingEditId # 0
    THEN [i \in 1..Len(snippets) |->
             IF i = CHOOSE j \in 1..Len(snippets) :
                        /\ snippets[j].id = pendingEditId
                        /\ \A k \in 1..(j - 1) : snippets[k].id # pendingEditId
             THEN snippet ELSE snippets[i]]
    ELSE unshift(snippets, snippet)

idsOf(snippets) == { snippets[i].id : i \in 1..Len(snippets) }

\* The toasts of a mutate, in the order shown: that of the catch of
\* saveEncrypted (line 341) when the write was rejected, then the one the
\* handler shows once saveEncrypted has returned (lines 323, 331, 568).
toastsAfter(rejected) ==
    IF rejected THEN <<"Save failed: Storage error", "done">> ELSE <<"done">>

\* lines 335-338: saveEncrypted returns at once without a key, and the handler
\* goes on to its toast; with a key it encrypts the collection as it is now
\* and suspends
saveEncrypted_call(s, snippets) ==
    IF State.key = NoKey
    THEN /\ savers' = savers
         /\ saved' = toastsAfter(FALSE)
    ELSE /\ savers' = [savers EXCEPT ![s] = [pc |-> "set", enc |-> encrypt(snippets, State.key)]]
         /\ saved' = saved

\* lines 296-320 (text snippets; pendingEditId 0 stands for null)
saveSnippet(s, content, pendingEditId) ==
    /\ ~loading
    /\ reset # "reload"
    /\ canStart
    /\ budget' = spendOp
    /\ savers[s].pc = "idle"
    /\ \A t \in 1..(s - 1) : savers[t].pc # "idle"
    /\ pendingEditId = 0 \/ pendingEditId \in idsOf(State.snippets)
    /\ LET id == IF pendingEditId # 0 THEN pendingEditId ELSE nextId + 1
           snippets == savedSnippets(State.snippets, pendingEditId, newSnippet(id, content))
       IN  /\ State' = [State EXCEPT !.snippets = snippets]
           /\ nextId' = IF pendingEditId # 0 THEN nextId ELSE nextId + 1
           /\ saveEncrypted_call(s, snippets)
    /\ UNCHANGED << storage, loading, login, setup, changePin, reset, adders,
                    report, nextSalt, now >>

filterOut(snippets, id) == SelectSeq(snippets, LAMBDA x : x.id # id)

\* lines 326-329, once the dialog is confirmed
deleteSnippet(s, id) ==
    /\ ~loading
    /\ reset # "reload"
    /\ canStart
    /\ budget' = spendOp
    /\ savers[s].pc = "idle"
    /\ \A t \in 1..(s - 1) : savers[t].pc # "idle"
    /\ id \in idsOf(State.snippets)
    /\ LET snippets == filterOut(State.snippets, id)
       IN  /\ State' = [State EXCEPT !.snippets = snippets]
           /\ saveEncrypted_call(s, snippets)
    /\ UNCHANGED << storage, loading, login, setup, changePin, reset, adders,
                    report, nextSalt, nextId, now >>

\* lines 543-566, once the file is parsed and the dialog confirmed: an item
\* without content or type is skipped, one whose content is known is skipped,
\* any other gets a new id and is pushed
importedItem_keepId(item, id) == item

importedItem(item, id) == [item EXCEPT !.id = id]

RECURSIVE forEachItem(_, _, _)
forEachItem(imported, snippets, id) ==
    IF imported = <<>>
    THEN [snippets |-> snippets, nextId |-> id]
    ELSE LET item == Head(imported)
         IN  IF item.content = "" \/ item.type = ""
             THEN forEachItem(Tail(imported), snippets, id)
             ELSE IF \E i \in 1..Len(snippets) : snippets[i].content = item.content
             THEN forEachItem(Tail(imported), snippets, id)
             ELSE forEachItem(Tail(imported),
                              Append(snippets, importedItem(item, id + 1)),
                              id + 1)

handleImport(s, imported) ==
    /\ ~loading
    /\ reset # "reload"
    /\ canStart
    /\ budget' = spendOp
    /\ savers[s].pc = "idle"
    /\ \A t \in 1..(s - 1) : savers[t].pc # "idle"
    /\ LET done == forEachItem(imported, State.snippets, nextId)
       IN  /\ State' = [State EXCEPT !.snippets = done.snippets]
           /\ nextId' = done.nextId
           /\ saveEncrypted_call(s, done.snippets)
    /\ UNCHANGED << storage, loading, login, setup, changePin, reset, adders,
                    report, nextSalt, now >>

\* line 339: the set of saveEncrypted takes effect; the handler shows its toast
saveEncrypted_set(s) ==
    /\ savers[s].pc = "set"
    /\ storage' = [storage EXCEPT !.encryptedData = savers[s].enc]
    /\ savers' = [savers EXCEPT ![s] = IdleSaver]
    /\ saved' = toastsAfter(FALSE)
    /\ UNCHANGED << State, loading, login, setup, changePin, reset, adders,
                    report, nextSalt, nextId, now, budget >>

\* lines 340-342: the set is rejected and caught: 'Save failed: Storage
\* error'; saveEncrypted returns normally and the handler shows its toast
saveEncrypted_rejected(s) ==
    /\ savers[s].pc = "set"
    /\ canFail
    /\ budget' = spendFault
    /\ savers' = [savers EXCEPT ![s] = IdleSaver]
    /\ saved' = toastsAfter(TRUE)
    /\ UNCHANGED << storage, State, loading, login, setup, changePin, reset,
                    adders, report, nextSalt, nextId, now >>

mutate ==
    \E s \in 1..MaxSavers :
        \/ \E content \in Contents, pendingEditId \in {0} \cup idsOf(State.snippets) :
               saveSnippet(s, content, pendingEditId)
        \/ \E id \in idsOf(State.snippets) : deleteSnippet(s, id)
        \/ \E imported \in ImportFiles : handleImport(s, imported)
        \/ saveEncrypted_set(s)
        \/ saveEncrypted_rejected(s)

\* ------------------------------------- popup life cycle (103-132, 579-582)
\* The page is loaded afresh: State as declared (103-111), no handler in
\* flight, no button disabled.  Salts and ids already used stay used.
pageLoads ==
    /\ State' = [key |-> NoKey, snippets |-> <<>>]
    /\ loading' = FALSE
    /\ login' = IdleLogin
    /\ setup' = IdleTask
    /\ changePin' = IdleTask
    /\ savers' = [s \in 1..MaxSavers |-> IdleSaver]
    /\ reset' = "idle"
    /\ report' = <<"none", "none">>
    /\ saved' = <<>>

\* the user closes the popup and opens it again: this is how a session locks
DOMContentLoaded ==
    /\ canStart
    /\ budget' = spendOp
    /\ pageLoads
    /\ UNCHANGED << storage, adders, nextSalt, nextId, now >>

\* line 579: the dialog is confirmed; suspends on storage.clear
handleReset_confirm ==
    /\ ~loading
    /\ canStart
    /\ budget' = spendOp
    /\ reset = "idle"
    /\ reset' = "clear"
    /\ UNCHANGED << storage, State, loading, login, setup, changePin, savers, saved,
                    adders, report, nextSalt, nextId, now >>

\* line 580: the clear takes effect
handleReset_clear ==
    /\ reset = "clear"
    /\ storage' = EmptyStorage
    /\ reset' = "reload"
    /\ UNCHANGED << State, loading, login, setup, changePin, savers, saved,
                    adders, report, nextSalt, nextId, now, budget >>

\* line 580: the clear is rejected; handleReset ends without reloading
handleReset_rejected ==
    /\ reset = "clear"
    /\ canFail
    /\ budget' = spendFault
    /\ reset' = "idle"
    /\ UNCHANGED << storage, State, loading, login, setup, changePin, savers, saved,
                    adders, report, nextSalt, nextId, now >>

\* line 581: location.reload()
handleReset_reload ==
    /\ reset = "reload"
    /\ pageLoads
    /\ UNCHANGED << storage, adders, nextSalt, nextId, now, budget >>

handleReset ==
    \/ handleReset_confirm
    \/ handleReset_clear
    \/ handleReset_rejected
    \/ handleReset_reload

\* ------------------------------------------------------------------ Init
InitPopup ==
    /\ State = [key |-> NoKey, snippets |-> <<>>]
    /\ loading = FALSE
    /\ login = IdleLogin
    /\ setup = IdleTask
    /\ changePin = IdleTask
    /\ savers = [s \in 1..MaxSavers |-> IdleSaver]
    /\ reset = "idle"
    /\ report = <<"none", "none">>
    /\ saved = <<>>
    /\ nextSalt = 0
    /\ nextId = 0

InitStore ==
    /\ storage = EmptyStorage
    /\ adders = [a \in 1..MaxAdders |-> IdleAdder]
    /\ now = 0

Init ==
    /\ InitStore
    /\ InitPopup
    /\ budget = [events |-> MaxEvents, faults |-> MaxFaults]

\* The queue after n captures made one after the other, alternating between
\* two contents (none is suppressed, none is lost): newest first.
capturedQueue(n) ==
    [i \in 1..n |-> [content |-> IF (n - i) % 2 = 0 THEN "foo" ELSE "bar",
                     timestamp |-> n - i + 1]]

\* SpecPending follows the background capture alone, from an empty queue and
\* from a queue that earlier captures have filled to two below its limit.
InitPending ==
    /\ \E n \in {0, MaxPending - 2} :
           /\ storage = [EmptyStorage EXCEPT !.pendingClips = capturedQueue(n)]
           /\ now = n
    /\ adders = [a \in 1..MaxAdders |-> IdleAdder]
    /\ InitPopup
    /\ budget = [events |-> PendingCaptures, faults |-> MaxFaults]

NextPending == addToPending

SpecPending == InitPending /\ [][NextPending]_vars

\* SpecUnlock follows handleLogin alone over the stores a popup may find when
\* it is opened: salt 1 with an envelope written under the key of either PIN,
\* the same envelope with altered bytes, or no envelope at all; the queue is
\* empty or holds one clip.
StoredEnvelopes ==
    LET written == { encrypt(data, deriveKey(pin, 1)) :
                        pin \in Pins, data \in { <<>>, <<newSnippet(1, "foo")>> } }
    IN  written \cup { tampered(e) : e \in written } \cup { NoEnvelope }

InitUnlock ==
    /\ \E e \in StoredEnvelopes, n \in {0, 1} :
           /\ storage = [salt |-> 1, encryptedData |-> e, pendingClips |-> capturedQueue(n)]
           /\ now = n
    /\ adders = [a \in 1..MaxAdders |-> IdleAdder]
    /\ State = [key |-> NoKey, snippets |-> <<>>]
    /\ loading = FALSE
    /\ login = IdleLogin
    /\ setup = IdleTask
    /\ changePin = IdleTask
    /\ savers = [s \in 1..MaxSavers |-> IdleSaver]
    /\ reset = "idle"
    /\ report = <<"none", "none">>
    /\ saved = <<>>
    /\ nextSalt = 1
    /\ nextId = 1
    /\ budget = [events |-> UnlockEvents, faults |-> MaxFaults]

NextUnlock == handleLogin

SpecUnlock == InitUnlock /\ [][NextUnlock]_vars

Next ==
    \/ addToPending
    \/ handleSetup
    \/ handleLogin
    \/ handleChangePin
    \/ mutate
    \/ handleReset
    \/ DOMContentLoaded

Spec == Init /\ [][Next]_vars
\* ================================================================ claims

\* a step of handleChangePin, of handleLogin, after the first (a page load
\* drops the handler and reports nothing)
RekeyStep == changePin.pc # "idle" /\ changePin' # changePin /\ report'[1] = "changePin"
LoginStep == login.pc # "idle" /\ login' # login /\ report'[1] = "login"
LoginEndsWith(outcome) ==
    /\ login.pc # "idle"
    /\ login'.pc = "idle"
    /\ report' = <<"login", outcome>>

\* C1: when the storage write of handleChangePin is rejected, State.key and
\* the persisted salt and envelope are what they were; and a step of
\* handleChangePin that changes the persisted salt or envelope writes both,
\* the envelope encrypted under the key of the new salt, and only that step
\* swaps State.key.
RekeyAtomicity ==
    [][ /\ (RekeyStep /\ report' = <<"changePin", "failed">>) =>
               /\ State'.key = State.key
               /\ storage'.salt = storage.salt
               /\ storage'.encryptedData = storage.encryptedData
        /\ (RekeyStep /\ storage' # storage) =>
               /\ storage'.salt = changePin.salt
               /\ storage'.encryptedData.key = changePin.key
               /\ changePin.key.salt = changePin.salt
               /\ State'.key = changePin.key
        /\ (RekeyStep /\ storage' = storage) => State'.key = State.key
      ]_vars

\* C1 witness: a PIN change of an unlocked session holding a snippet was
\* rejected; key, salt and envelope are the old ones
RekeyRejectedWitness ==
    /\ report = <<"changePin", "failed">>
    /\ State.key # NoKey
    /\ State.snippets # <<>>
    /\ storage.salt = State.key.salt
    /\ storage.encryptedData.key = State.key

\* C2: the persisted envelope is encrypted under a key derived from the
\* persisted salt, here once handleChangePin has persisted a new salt and
\* reported success.
SaltEnvelopePaired ==
    (report = <<"changePin", "ok">> /\ storage.salt # NoSalt) =>
        storage.encryptedData.key.salt = storage.salt

\* C3: the steps of an unlock attempt up to the decryption leave the session
\* and the store as they are, and an attempt whose PIN does not open the
\* envelope ends reported as failed, with the store unchanged and a session
\* that was Locked still Locked.
WrongPinIdempotent ==
    [][ /\ (login' # login /\ login.pc \in {"idle", "get"} /\ report'[1] = "login") =>
               (storage' = storage /\ State' = State)
        /\ (LoginStep /\ login.pc = "decrypt" /\ login.enc.key # login.key) =>
               /\ storage' = storage
               /\ LoginEndsWith("failed")
               /\ State' = State
               /\ login.wasLocked => State'.key = NoKey /\ State'.snippets = <<>>
      ]_vars

\* C3 witness: after setup and a lock, an attempt failed; the vault and a
\* non-empty pending queue are in the store, the session is Locked
WrongPinWitness ==
    /\ report = <<"login", "failed">>
    /\ State.key = NoKey
    /\ storage.salt # NoSalt
    /\ storage.encryptedData # NoEnvelope
    /\ storage.pendingClips # <<>>
    /\ budget.faults = MaxFaults

\* C4: when an unlock of a Locked session is reported as failed, the session
\* holds no key and no collection.
FailedUnlockIsLocked ==
    [][ (LoginEndsWith("failed") /\ login.wasLocked) =>
            (State'.key = NoKey /\ State'.snippets = <<>>) ]_vars
\* C5: when an unlock of a Locked session ends in success, the persisted
\* pending queue is empty.
UnlockClearsPending ==
    [][ (LoginEndsWith("ok") /\ login.wasLocked) => storage'.pendingClips = <<>> ]_vars

\* C6: when processPendingClips, in the unlock of a Locked session, removes the
\* pending queue from the store, every clip it removes has its content in the
\* collection.
DrainedClipsWereAdded ==
    [][ (LoginStep /\ login.pc = "pendingRemove" /\ login.wasLocked
            /\ storage'.pendingClips # storage.pendingClips) =>
            contentsOf(storage.pendingClips) \subseteq contentsOf(State.snippets) ]_vars

\* the step in which processPendingClips reads the queue and runs its forEach
ReconcileStep == LoginStep /\ login.pc = "pendingGet" /\ budget' = budget

\* the snippets a step has put in front of the collection
addedBy(before, after) == SubSeq(after, 1, Len(after) - Len(before))

\* C7 (the result of the forEach): the collection after reconciliation is the
\* one before with, in front of it, exactly one snippet of type text and tags
\* [auto] for each distinct content of the queue that no snippet had.
ReconcileResult ==
    [][ ReconcileStep =>
            LET Q == storage.pendingClips
                C == State.snippets
                new == addedBy(C, State'.snippets)
            IN  /\ Len(State'.snippets) >= Len(C)
                /\ State'.snippets = new \o C
                /\ contentsOf(new) = contentsOf(Q) \ contentsOf(C)
                /\ Len(new) = Cardinality(contentsOf(Q) \ contentsOf(C))
                /\ \A i \in 1..Len(new) :
                       new[i].type = "text" /\ new[i].tags = <<"auto">>
      ]_vars

\* C7: the result of the forEach as above, and when an unlock of a Locked
\* session ends in success (no reset under way) the persisted envelope
\* decrypts under the session key to the collection of the session.
ReconcilePersisted ==
    /\ ReconcileResult
    /\ [][ (LoginEndsWith("ok") /\ login.wasLocked /\ reset = "idle") =>
               /\ ~decryptThrows(storage'.encryptedData, State'.key)
               /\ decrypt(storage'.encryptedData, State'.key) = State'.snippets ]_vars

\* C8: a second run of processPendingClips directly after a first one, on the
\* queue the first one read or on the empty queue its remove left, adds
\* nothing; a run that adds nothing ends there and leaves the store as it is;
\* and no run adds a snippet whose content a snippet of the collection, or
\* another snippet it adds, already has.
ReconcileIdempotent ==
    [][ ReconcileStep =>
            LET Q == storage.pendingClips
                C == State.snippets
                new == addedBy(C, State'.snippets)
            IN  /\ forEachClip(Q, State'.snippets, nextId').snippets = State'.snippets
                /\ forEachClip(<<>>, State'.snippets, nextId').snippets = State'.snippets
                /\ (State'.snippets = C) => (storage' = storage /\ login'.pc = "idle")
                /\ contentsOf(new) \cap contentsOf(C) = {}
                /\ \A i, j \in 1..Len(new) : new[i].content = new[j].content => i = j
      ]_vars

\* C8 witness: an unlock has added two clips to a collection and is about to
\* persist it
ReconcileWitness ==
    /\ login.pc = "pendingSave"
    /\ Len(State.snippets) >= 2
    /\ Len(storage.pendingClips) >= 2
    /\ \E i \in 1..Len(State.snippets) : State.snippets[i].tags = <<"auto">>
\* the step in which call a of addToPending has read the queue (lines 26-35),
\* the step in which its write takes effect (line 37)
AdderReads(a) == adders[a].pc = "get" /\ adders'[a] # adders[a] /\ budget' = budget
AdderWrites(a) == adders[a].pc = "set" /\ adders'[a] # adders[a] /\ budget' = budget

newestFirst(list) ==
    \A i, j \in 1..Len(list) : i < j => list[i].timestamp >= list[j].timestamp

\* C9: the persisted pending queue never holds more than 20 entries and is
\* ordered newest first; a call that inserts into a queue of 20 writes the new
\* entry followed by the first 19 of the queue it read, so that the entry it
\* drops is the last one, which is the oldest.
PendingBounded ==
    /\ [](Len(storage.pendingClips) <= MaxPending /\ newestFirst(storage.pendingClips))
    /\ [][ \A a \in 1..MaxAdders :
             (AdderReads(a) /\ adders'[a].pc = "set" /\ Len(storage.pendingClips) = MaxPending) =>
                 LET read == storage.pendingClips
                     written == adders'[a].list
                 IN  /\ Len(written) = MaxPending
                     /\ Head(written).content = adders[a].content
                     /\ Tail(written) = SubSeq(read, 1, MaxPending - 1)
                     /\ \A i \in 1..Len(read) : read[MaxPending].timestamp <= read[i].timestamp
         ]_vars

\* C9 witness: the queue is full and its head is later than the 20th capture
PendingFullWitness ==
    /\ Len(storage.pendingClips) = MaxPending
    /\ storage.pendingClips[1].timestamp > MaxPending
    /\ \A a \in 1..MaxAdders : adders[a].pc = "idle"

noAdjacentDuplicates(list) ==
    \A i \in 1..(Len(list) - 1) : list[i].content # list[i + 1].content

\* C10: a call whose content is the content of the head of the queue it read
\* ends without writing; any other call writes its content in front of the
\* queue it read, whatever lies deeper; and no two adjacent entries of the
\* persisted queue have equal content.
HeadDuplicateSuppressed ==
    /\ [] noAdjacentDuplicates(storage.pendingClips)
    /\ [][ \A a \in 1..MaxAdders :
             /\ AdderReads(a) =>
                  LET read == storage.pendingClips
                      content == adders[a].content
                  IN  IF Len(read) > 0 /\ read[1].content = content
                      THEN adders'[a].pc = "idle" /\ storage' = storage
                      ELSE /\ adders'[a].pc = "set"
                           /\ Head(adders'[a].list).content = content
                           /\ Tail(adders'[a].list) =
                                  SubSeq(read, 1, Len(adders'[a].list) - 1)
                           /\ Len(adders'[a].list) >= Len(read)
             /\ AdderWrites(a) => storage'.pendingClips = adders[a].list
         ]_vars

\* C10 witness: of the captures entered from the empty queue one was suppressed
\* and none was lost, and the content of the head also sits deeper in the queue
HeadDuplicateWitness ==
    /\ \A a \in 1..MaxAdders : adders[a].pc = "idle"
    /\ budget.events = 0
    /\ budget.faults = MaxFaults
    /\ now = PendingCaptures - 1
    /\ Len(storage.pendingClips) = now
    /\ storage.pendingClips[1].content = storage.pendingClips[3].content

\* C11: when handleSetup completes on a store without salt, the store holds a
\* salt and an envelope, the session holds the key and the empty collection,
\* and the envelope opens to the empty collection under the key of the PIN
\* that was set up and under no key of another PIN; and when a locked session
\* unlocks a store whose envelope of the empty collection is under the key of
\* the persisted salt, the PIN of that key is adopted with the empty collection
\* and any other PIN is reported as failed and adopts nothing.
SetupThenUnlock ==
    [][ /\ (setup.pc = "set" /\ report' = <<"setup", "ok">> /\ storage.salt = NoSalt) =>
               /\ storage'.salt # NoSalt
               /\ storage'.encryptedData # NoEnvelope
               /\ State'.key # NoKey
               /\ State' = [key |-> setup.key, snippets |-> <<>>]
               /\ \A p \in Pins :
                      LET k == deriveKey(p, storage'.salt)
                      IN  IF p = setup.key.pin
                          THEN /\ ~decryptThrows(storage'.encryptedData, k)
                               /\ decrypt(storage'.encryptedData, k) = <<>>
                          ELSE decryptThrows(storage'.encryptedData, k)
        /\ ( /\ login.pc = "decrypt" /\ login'.pc # "decrypt"
             /\ report'[1] # "none"
             /\ login.wasLocked
             /\ login.enc # NoEnvelope
             /\ login.enc.data = <<>>
             /\ login.enc.key.salt = login.key.salt ) =>
               IF login.pin = login.enc.key.pin
               THEN /\ State' = [key |-> login.key, snippets |-> <<>>]
                    /\ login'.pc = "pendingGet"
               ELSE /\ State' = State
                    /\ report' = <<"login", "failed">>
      ]_vars

\* C11 witness: after a setup the popup was reopened and the PIN that was set
\* up unlocked the empty collection
SetupThenUnlockWitness ==
    /\ report = <<"login", "ok">>
    /\ login.pc = "idle"
    /\ State.key # NoKey
    /\ State.snippets = <<>>
    /\ storage.salt = State.key.salt
    /\ storage.encryptedData = encrypt(<<>>, State.key)
    /\ storage.pendingClips = <<>>
    /\ nextSalt = 1
    /\ nextId = 0
\* The part of C12 that holds, step by step (used in the discussion of C12
\* below): when handleChangePin completes on an unlocked session, the collection
\* in memory is unchanged and the persisted envelope opens to exactly that
\* collection under the key of the new PIN and the persisted salt, and under
\* no key of another PIN nor under the old session key; and when a locked
\* session unlocks a store whose envelope of a non-empty collection is under
\* the key of the persisted salt, the PIN of that key is adopted with exactly
\* that collection and any other PIN is reported as failed and adopts nothing.
RekeyThenUnlock ==
    [][ /\ (changePin.pc = "set" /\ report' = <<"changePin", "ok">> /\ State.key # NoKey) =>
               /\ State'.snippets = State.snippets
               /\ decryptThrows(storage'.encryptedData, State.key)
               /\ \A p \in Pins :
                      LET k == deriveKey(p, storage'.salt)
                      IN  IF p = changePin.key.pin
                          THEN /\ ~decryptThrows(storage'.encryptedData, k)
                               /\ decrypt(storage'.encryptedData, k) = State.snippets
                          ELSE decryptThrows(storage'.encryptedData, k)
        /\ ( /\ login.pc = "decrypt" /\ login'.pc # "decrypt"
             /\ report'[1] # "none"
             /\ login.wasLocked
             /\ login.enc # NoEnvelope
             /\ login.enc.data # <<>>
             /\ login.enc.key.salt = login.key.salt ) =>
               IF login.pin = login.enc.key.pin
               THEN /\ State' = [key |-> login.key, snippets |-> login.enc.data]
                    /\ login'.pc = "pendingGet"
               ELSE /\ State' = State
                    /\ report' = <<"login", "failed">>
      ]_vars

\* a snippet was saved, the PIN changed, the popup reopened, and the unlock
\* under the key of the second salt yielded the collection
RekeyThenUnlockWitness ==
    /\ report = <<"login", "ok">>
    /\ login.pc = "idle"
    /\ nextSalt = 2
    /\ State.key.salt = 2
    /\ State.snippets # <<>>
    /\ storage.salt = 2
    /\ storage.encryptedData = encrypt(State.snippets, State.key)
    /\ now = 0
\* C12: when a session locks after a successful change of PIN (no other
\* handler has reported since, no save is in flight, no storage call was ever
\* rejected), the persisted store opens under the new PIN to exactly the
\* collection the session held, so that the next unlock with the new PIN
\* yields it.
RekeyThenLock ==
    [][ ( /\ State.key # NoKey /\ State'.key = NoKey
          /\ reset = "idle"
          /\ report = <<"changePin", "ok">>
          /\ \A s \in 1..MaxSavers : savers[s].pc = "idle"
          /\ budget.faults = MaxFaults ) =>
            LET k == deriveKey(State.key.pin, storage.salt)
            IN  /\ ~decryptThrows(storage.encryptedData, k)
                /\ decrypt(storage.encryptedData, k) = State.snippets
      ]_vars
\* C13: once handleReset has erased the store, the erased state does not come
\* back: a step that writes to the store holding nothing leaves at most the
\* one clip of that call in the queue and leaves an envelope only together
\* with a salt; and the reload that ends the reset leaves the session without
\* key and collection.
ResetErasesAll ==
    [][ /\ storage = EmptyStorage =>
               /\ Len(storage'.pendingClips) <= 1
               /\ storage'.encryptedData # NoEnvelope => storage'.salt # NoSalt
        /\ (reset = "reload" /\ reset' = "idle") =>
               State' = [key |-> NoKey, snippets |-> <<>>]
      ]_vars
\* the storage.set of a saveEncrypted in flight is rejected in this step
SaveRejectedStep ==
    /\ budget'.faults < budget.faults
    /\ \E s \in 1..MaxSavers : savers[s].pc = "set" /\ savers'[s].pc = "idle"

toastsOf(shown) == { shown[i] : i \in 1..Len(shown) }

\* C14: when the storage write of a save, delete or import is rejected, the
\* collection in memory keeps the change, the persisted store is what it was,
\* the session keeps its key, and the user is shown the failure and not the
\* toast of a completed save.
SaveFailureSurfaced ==
    [][ SaveRejectedStep =>
            /\ State' = State
            /\ State'.key # NoKey
            /\ storage' = storage
            /\ "Save failed: Storage error" \in toastsOf(saved')
            /\ "done" \notin toastsOf(saved')
      ]_vars

\* the part of C14 that holds: no rollback, store untouched, key kept, and
\* the failure toast is shown
SaveFailureKeepsState ==
    [][ SaveRejectedStep =>
            /\ State' = State
            /\ State'.key # NoKey
            /\ storage' = storage
            /\ "Save failed: Storage error" \in toastsOf(saved')
      ]_vars
\* C15: while the session holds no key, no step changes the collection in
\* memory (other than the page load, which empties it) or the persisted
\* envelope and salt, and no save, delete or import shows the toast of a
\* completed operation.
MutateNeedsKey ==
    [][ (State.key = NoKey /\ State'.key = NoKey) =>
            /\ State'.snippets = State.snippets \/ State'.snippets = <<>>
            /\ storage.salt # NoSalt =>
                   /\ storage'.encryptedData = storage.encryptedData
                   /\ storage'.salt = storage.salt
            /\ "done" \notin toastsOf(saved')
      ]_vars
\* C16: no key is ever derived from a PIN that is not exactly six digits: the
\* keys that handleSetup, handleChangePin and handleLogin hold while in flight,
\* and the key of the session, all come from a well-formed PIN.
PinGuardBeforeDerivation ==
    /\ setup.key # NoKey => validatePin(setup.key.pin)
    /\ changePin.key # NoKey => validatePin(changePin.key.pin)
    /\ login.key # NoKey => validatePin(login.key.pin)
    /\ State.key # NoKey => validatePin(State.key.pin)

\* the part of C16 that holds: setup and rekey derive no key from a malformed
\* PIN, the session never holds one, and a submit that handleSetup or
\* handleChangePin rejects as malformed changes nothing but the toast
PinGuardOfSetupAndRekey ==
    /\ setup.key # NoKey => validatePin(setup.key.pin)
    /\ changePin.key # NoKey => validatePin(changePin.key.pin)
    /\ State.key # NoKey => validatePin(State.key.pin)
    /\ report[2] = "invalid" => report[1] \in {"setup", "changePin"}
\* C17: whenever decrypt throws for the envelope and key that handleLogin hands
\* it (wrong key, altered bytes, missing envelope), it throws the one Error of
\* line 97, whatever the cause.
UniformDecryptionFailure ==
    (login.pc = "decrypt" /\ decryptThrows(login.enc, login.key)) =>
        decryptError(login.enc, login.key) = DecryptionFailed

\* the part of C17 that holds: whatever decrypt throws, handleLogin shows the
\* same outcome and adopts nothing
UniformUnlockFailure ==
    [][ (LoginStep /\ login.pc = "decrypt" /\ decryptThrows(login.enc, login.key)) =>
            /\ report' = <<"login", "failed">>
            /\ State' = State
            /\ storage' = storage
      ]_vars
\* what C18 says of the collection new that an import of the file imported
\* makes of the collection old
isItem(item) == item.content # "" /\ item.type # ""

ImportResult(old, imported, new) ==
    LET n == Len(old)
        added == SubSeq(new, n + 1, Len(new))
    IN  /\ Len(new) >= n
        /\ SubSeq(new, 1, n) = old
        /\ \A i \in 1..Len(imported) :
               isItem(imported[i]) =>
                   ( (\E j \in 1..Len(added) : added[j].content = imported[i].content)
                     <=> imported[i].content \notin contentsOf(old) )
        /\ \A j \in 1..Len(added) :
               /\ \E i \in 1..Len(imported) :
                      /\ isItem(imported[i])
                      /\ added[j] = [imported[i] EXCEPT !.id = added[j].id]
               /\ added[j].id \notin idsOf(old)
               /\ \A k \in 1..Len(added) :
                      k # j => /\ added[k].content # added[j].content
                               /\ added[k].id # added[j].id

\* a save, delete or import starts in this step: without a key it shows its
\* toast at once, with a key one more saveEncrypted is in flight
MutateStarts ==
    /\ budget'.events < budget.events
    /\ budget'.faults = budget.faults
    /\ State'.key = State.key
    /\ << storage, loading, login, setup, changePin, reset, adders, report >>' =
       << storage, loading, login, setup, changePin, reset, adders, report >>
    /\ IF State.key = NoKey
       THEN saved' = <<"done">> /\ savers' = savers
       ELSE /\ saved' = saved
            /\ \E s \in 1..MaxSavers :
                   /\ savers[s].pc = "idle"
                   /\ savers'[s].pc = "set"
                   /\ \A t \in 1..MaxSavers : t # s => savers'[t] = savers[t]

\* C18: in every reachable state, importing any of the files gives a
\* collection that starts with the snippets it had, unchanged and in their
\* order, followed by one new snippet for each content of the file that has a
\* type and was not in the collection, each under an id that no snippet had;
\* and a step of the popup that appends to a non-empty collection has this
\* result for one of the files.
ImportMerges ==
    /\ [](\A imported \in ImportFiles :
             ImportResult(State.snippets, imported,
                          forEachItem(imported, State.snippets, nextId).snippets))
    /\ [][ ( /\ MutateStarts
             /\ State.snippets # <<>>
             /\ Len(State'.snippets) > Len(State.snippets)
             /\ SubSeq(State'.snippets, 1, Len(State.snippets)) = State.snippets ) =>
               \E imported \in ImportFiles :
                   ImportResult(State.snippets, imported, State'.snippets)
         ]_vars

\* C18 witness: onto the saved snippet "foo" a file with "bar" and "foo" was
\* imported: "bar" was appended under a new id, "foo" was skipped, and the
\* collection was persisted
ImportMergesWitness ==
    /\ Len(State.snippets) = 2
    /\ State.snippets[1] = newSnippet(1, "foo")
    /\ State.snippets[2] = [barItem EXCEPT !.id = 2]
    /\ saved = <<"done">>
    /\ State.key # NoKey
    /\ storage.encryptedData = encrypt(State.snippets, State.key)
\* when the newest clip of the queue with this content was captured
clipTime(queue, content) ==
    queue[CHOOSE i \in 1..Len(queue) :
              /\ queue[i].content = content
              /\ \A j \in 1..(i - 1) : queue[j].content # content].timestamp

\* the snippets that the step of processPendingClips puts in front of the
\* collection it found
createdBy(old, new) == SubSeq(new, 1, Len(new) - Len(old))

\* the part of C19 that holds: the snippets created from the queue come before
\* the snippets that were in the collection, which keep their order
ReconcilePrepends ==
    [][ (LoginStep /\ login.pc = "pendingGet") =>
            /\ Len(State'.snippets) >= Len(State.snippets)
            /\ SubSeq(State'.snippets,
                      Len(State'.snippets) - Len(State.snippets) + 1,
                      Len(State'.snippets)) = State.snippets
      ]_vars

\* C19: the snippets that one unlock creates from the queue come before the
\* snippets that were in the collection, and among themselves they are
\* most-recent-first: one made from a clip captured later comes earlier.
ReconcileKeepsOrder ==
    [][ (LoginStep /\ login.pc = "pendingGet") =>
            /\ Len(State'.snippets) >= Len(State.snippets)
            /\ SubSeq(State'.snippets,
                      Len(State'.snippets) - Len(State.snippets) + 1,
                      Len(State'.snippets)) = State.snippets
            /\ LET created == createdBy(State.snippets, State'.snippets)
               IN  \A i \in 1..Len(created), j \in 1..Len(created) :
                       i < j => clipTime(storage.pendingClips, created[i].content)
                                > clipTime(storage.pendingClips, created[j].content)
      ]_vars
\* no handler of the popup is in flight
Quiescent ==
    /\ \A s \in 1..MaxSavers : savers[s].pc = "idle"
    /\ login.pc = "idle"
    /\ setup.pc = "idle"
    /\ changePin.pc = "idle"
    /\ reset = "idle"

\* C20: in an unlocked session with no handler in flight, when no storage call
\* has been rejected, a persisted envelope that the session key opens holds
\* exactly the collection in memory.
PersistedConverges ==
    ( /\ State.key # NoKey
      /\ Quiescent
      /\ budget.faults = MaxFaults
      /\ ~decryptThrows(storage.encryptedData, State.key) ) =>
        decrypt(storage.encryptedData, State.key) = State.snippets
\* C21: a content that a completed addToPending call has put in the persisted
\* queue stays there while the queue is short of its bound of 20 entries: no
\* write of another call removes it, so that once all calls have completed
\* every content that was neither suppressed nor dropped by the bound is in
\* the queue.
NoLostCapture ==
    [][ \A a \in 1..MaxAdders :
            (AdderWrites(a) /\ Len(storage.pendingClips) < MaxPending) =>
                contentsOf(storage.pendingClips) \subseteq contentsOf(storage'.pendingClips)
      ]_vars
distinctIds(snippets) ==
    \A i, j \in 1..Len(snippets) : i # j => snippets[i].id # snippets[j].id

\* C22: in every reachable state the snippets of the collection in memory have
\* pairwise distinct ids; a save that changes the collection without changing
\* its length replaces one snippet by one of the same id at the same position
\* and leaves every other snippet as it was; and a delete removes exactly one
\* snippet, the one with the id it was given, and keeps the others in order.
SnippetIdentity ==
    /\ [] distinctIds(State.snippets)
    /\ [][ /\ ( /\ MutateStarts
                 /\ Len(State'.snippets) = Len(State.snippets)
                 /\ State'.snippets # State.snippets ) =>
                   \E i \in 1..Len(State.snippets) :
                       /\ State'.snippets[i].id = State.snippets[i].id
                       /\ \A j \in 1..Len(State.snippets) :
                              j # i => State'.snippets[j] = State.snippets[j]
           /\ (MutateStarts /\ Len(State'.snippets) < Len(State.snippets)) =>
                   \E i \in 1..Len(State.snippets) :
                       /\ Len(State'.snippets) = Len(State.snippets) - 1
                       /\ State.snippets[i].id \notin idsOf(State'.snippets)
                       /\ \A j \in 1..Len(State'.snippets) :
                              State'.snippets[j] =
                                  State.snippets[IF j < i THEN j ELSE j + 1]
         ]_vars

\* C22 witness: the snippet of id 2 was appended by an import behind that of
\* id 1, with another content (an import never adds a content the collection
\* has), and an edit then gave one of them the content of the other: same
\* ids, same positions
SnippetIdentityWitness ==
    /\ State.key # NoKey
    /\ nextId = 2
    /\ State.snippets = << newSnippet(1, "foo"), newSnippet(2, "foo") >>
====
